---- MODULE Spec2Model ----
(***************************************************************************)
(* Model of flutes/io.py: reverse_open and _ReverseReadlineFile.generator, *)
(* the backward chunked line reader.  A file is a sequence of bytes        *)
(* (0..255); decoded text is a sequence of Unicode code points; a line is  *)
(* a sequence of code points; the optional pending segment is a sequence   *)
(* of length 0 (None) or 1 (the segment).  The module also models shut_up  *)
(* over a table of file descriptors, and progress_open with the            *)
(* _ProgressBufferedReader it returns over a progress bar and a raw file.  *)
(***************************************************************************)
EXTENDS Integers, Sequences, FiniteSets, TLC

\* ---------------------------------------------------------------- bounds
MaxFileLen == 7      \* longest validly encoded file, in bytes
MaxRawLen == 7       \* longest file of arbitrary bytes
MaxBuf == 8          \* largest buffer_size passed to reverse_open
MaxFd == 9           \* largest file descriptor of the process
MaxProgLen == 4      \* longest file read through the progress wrapper
MaxPos == 6          \* largest position sought in the progress wrapper

\* ------------------------------------------------------------- constants
MAX_CHAR_BYTES == 4
NL == 10             \* code point and byte of '\n'

\* characters written to validly encoded files: '\n', 'a', e-acute (2 bytes),
\* the euro sign (3 bytes), U+1F600 (4 bytes)
Chars == {10, 97, 233, 8364, 128512}
\* bytes of files that need not be valid: '\n', a continuation byte and a
\* 2-byte lead byte (together they encode e-acute, apart they are invalid)
RawBytes == {10, 169, 195}

None == << >>
Some(s) == << s >>

Min(a, b) == IF a <= b THEN a ELSE b

\* ------------------------------------------------------ UTF-8 (the codec)
\* str.encode("utf-8") of one code point
Encode(cp) ==
  IF cp < 128 THEN << cp >>
  ELSE IF cp < 2048 THEN << 192 + (cp \div 64), 128 + (cp % 64) >>
  ELSE IF cp < 65536 THEN
    << 224 + (cp \div 4096), 128 + ((cp \div 64) % 64), 128 + (cp % 64) >>
  ELSE << 240 + (cp \div 262144), 128 + ((cp \div 4096) % 64),
          128 + ((cp \div 64) % 64), 128 + (cp % 64) >>

RECURSIVE EncodeAll(_)
EncodeAll(t) == IF t = << >> THEN << >> ELSE Encode(Head(t)) \o EncodeAll(Tail(t))

IsCont(b) == b >= 128 /\ b <= 191

\* the width announced by a lead byte, 0 for a byte that cannot start a character
LeadWidth(b) ==
  IF b < 128 THEN 1
  ELSE IF b >= 194 /\ b <= 223 THEN 2
  ELSE IF b >= 224 /\ b <= 239 THEN 3
  ELSE IF b >= 240 /\ b <= 244 THEN 4
  ELSE 0

\* the range the second byte of a character must lie in (strict UTF-8)
SecondOk(b1, b2) ==
  IF b1 = 224 THEN b2 >= 160 /\ b2 <= 191
  ELSE IF b1 = 237 THEN b2 >= 128 /\ b2 <= 159
  ELSE IF b1 = 240 THEN b2 >= 144 /\ b2 <= 191
  ELSE IF b1 = 244 THEN b2 >= 128 /\ b2 <= 143
  ELSE IsCont(b2)

\* is there a well-formed character at position i of bs
CharOkAt(bs, i) ==
  LET w == LeadWidth(bs[i]) IN
    /\ w > 0
    /\ i + w - 1 <= Len(bs)
    /\ w >= 2 => SecondOk(bs[i], bs[i + 1])
    /\ \A k \in 2..(w - 1) : IsCont(bs[i + k])

CodePointAt(bs, i) ==
  LET w == LeadWidth(bs[i]) IN
    IF w = 1 THEN bs[i]
    ELSE IF w = 2 THEN (bs[i] - 192) * 64 + (bs[i + 1] - 128)
    ELSE IF w = 3 THEN (bs[i] - 224) * 4096 + (bs[i + 1] - 128) * 64 + (bs[i + 2] - 128)
    ELSE (bs[i] - 240) * 262144 + (bs[i + 1] - 128) * 4096
         + (bs[i + 2] - 128) * 64 + (bs[i + 3] - 128)

\* bytes.decode("utf-8") from position i on: the code points, or failure
RECURSIVE DecodeFrom(_, _)
DecodeFrom(bs, i) ==
  IF i > Len(bs) THEN [ok |-> TRUE, text |-> << >>]
  ELSE IF ~CharOkAt(bs, i) THEN [ok |-> FALSE, text |-> << >>]
  ELSE LET rest == DecodeFrom(bs, i + LeadWidth(bs[i])) IN
         [ok |-> rest.ok,
          text |-> IF rest.ok THEN << CodePointAt(bs, i) >> \o rest.text ELSE << >>]

Decode(bs) == DecodeFrom(bs, 1)

\* --------------------------------------------------------- str.split('\n')
RECURSIVE SplitFrom(_, _, _)
\* cur is the fragment collected so far, i the next position of s
SplitFrom(s, i, cur) ==
  IF i > Len(s) THEN << cur >>
  ELSE IF s[i] = NL THEN << cur >> \o SplitFrom(s, i + 1, << >>)
  ELSE SplitFrom(s, i + 1, Append(cur, s[i]))

Split(s) == SplitFrom(s, 1, << >>)

\* ------------------------------------------------------------ file object
\* fp.read(n) at position pos
Read(f, pos, n) == SubSeq(f, pos + 1, Min(pos + n, Len(f)))

\* ----------------------------------------------------------------- inputs
RECURSIVE TextsOfLen(_)
\* the texts whose encoding is exactly n bytes long
TextsOfLen(n) ==
  IF n = 0 THEN { << >> }
  ELSE UNION { { << c >> \o t : t \in TextsOfLen(n - Len(Encode(c))) } :
               c \in { d \in Chars : Len(Encode(d)) <= n } }

ValidFiles == UNION { { EncodeAll(t) : t \in TextsOfLen(n) } : n \in 0..MaxFileLen }
ByteFiles == UNION { [1..n -> RawBytes] : n \in 0..MaxRawLen }
BufArgs == 0..MaxBuf

NoRun == [ran |-> FALSE, allow |-> FALSE, out |-> << >>, split |-> FALSE]

VARIABLES
  file,               \* the bytes of the file at path
  fp,                 \* "none", "open", "closed": the handle reverse_open opened
  fpPos,              \* the position of fp
  ioLog,              \* the I/O operations performed since reverse_open was called
  buffer_size,        \* the argument of the last call of reverse_open, -1 before it
  buf_size, allow_empty_lines,     \* the generator's arguments
  gen,                \* "none", "created", "running", "suspended", "done", "raised"
  pc,                 \* the generator's position
  segment, offset, file_size, remaining_size,
  cur_buf_size, buffer_bytes, trials, buffer, lines, index,
  out,                \* the lines the generator has yielded, in order
  result,             \* the outcome of the caller's most recent call
  chunkPos, chunkEnd, \* buffer_bytes is the bytes of the file from chunkPos to chunkEnd
  covered,            \* per byte of the file, the number of decoded chunks holding it
  split,              \* some chunk of this reader started inside a character
  lastOffset,         \* the value of offset when the current loop iteration began
  iters,              \* the number of loop iterations begun
  exited,             \* __exit__ has been called on the reader
  prev,               \* the outcome of the preceding reader, when it was exhausted
  \* shut_up
  fdt,                \* the descriptor table: per descriptor the stream it refers to
  fdt0,               \* the descriptor table when the current shut_up scope was entered
  su,                 \* "idle", "body", "done", "raised": the shut_up scope
  stderr, stdout,     \* the arguments of shut_up
  fds, null_fds, output_fds,
  \* progress_open and _ProgressBufferedReader
  mode, verbose,      \* the arguments of the last call of progress_open
  handle,             \* what it returned: "none", "plain", "reader", "text"
  raw,                \* "none", "open", "closed": the io.FileIO under the reader
  progress_bar,       \* the tqdm bar: its state, n, total and the calls of the last operation
  tell,               \* the stream position of the reader
  call,               \* the last operation on the reader and what it returned
  returned,           \* the bytes returned by the read calls made before any seek
  sought,             \* seek has been called on the reader
  life                \* "new", "with", "close", "exit": the last of __enter__, close, __exit__

shutVars == << fdt, fdt0, su, stderr, stdout, fds, null_fds, output_fds >>
progVars == << mode, verbose, handle, raw, progress_bar, tell, call, returned,
              sought, life >>
others == << shutVars, progVars >>
hist == << chunkPos, chunkEnd, covered, split, lastOffset, iters, exited >>
locals == << segment, offset, file_size, remaining_size, cur_buf_size,
             buffer_bytes, trials, buffer, lines, index >>
args == << buffer_size, buf_size, allow_empty_lines >>
vars == << file, fp, fpPos, ioLog, buffer_size, buf_size, allow_empty_lines, gen, pc,
           segment, offset, file_size, remaining_size, cur_buf_size,
           buffer_bytes, trials, buffer, lines, index, out, result,
           chunkPos, chunkEnd, covered, split, lastOffset, iters, exited, prev,
           shutVars, progVars >>

\* the standard streams, and nothing else open
StdTable == [fd \in 0..MaxFd |->
               IF fd = 0 THEN "stdin" ELSE IF fd = 1 THEN "stdout"
               ELSE IF fd = 2 THEN "stderr" ELSE "free"]

\* shut_up has not been called
ShutIdle ==
  /\ fdt0 = fdt /\ su = "idle" /\ stderr = FALSE /\ stdout = FALSE
  /\ fds = << >> /\ null_fds = << >> /\ output_fds = << >>

NoBar == [state |-> "none", n |-> 0, total |-> 0, log |-> << >>]
NoCall == [op |-> "none", ret |-> 0, exc |-> "none"]

\* progress_open has not been called
ProgIdle ==
  /\ mode = "none" /\ verbose = FALSE /\ handle = "none" /\ raw = "none"
  /\ progress_bar = NoBar /\ tell = 0 /\ call = NoCall
  /\ returned = 0 /\ sought = FALSE /\ life = "new"

\* reverse_open has not been called
ReaderIdle ==
  /\ fp = "none" /\ fpPos = 0 /\ ioLog = {}
  /\ buffer_size = -1 /\ buf_size = 0 /\ allow_empty_lines = FALSE
  /\ gen = "none" /\ pc = "start"
  /\ segment = None /\ offset = 0 /\ file_size = 0 /\ remaining_size = 0
  /\ cur_buf_size = 0 /\ buffer_bytes = << >> /\ trials = 0
  /\ buffer = << >> /\ lines = << >> /\ index = 0
  /\ out = << >> /\ result = "none"
  /\ chunkPos = 0 /\ chunkEnd = 0
  /\ covered = [i \in 1..Len(file) |-> 0]
  /\ split = FALSE
  /\ lastOffset = 0 /\ iters = 0 /\ exited = FALSE
  /\ prev = NoRun

InitRest == ReaderIdle /\ fdt = StdTable /\ ShutIdle /\ ProgIdle

Init == file \in ValidFiles /\ InitRest
InitBytes == file \in ByteFiles /\ InitRest

\* ------------------------------------------------------------ reverse_open
\* the comparison of line 216 made strict
ConfigOk_strict(bs) == bs > MAX_CHAR_BYTES

\* line 216: the buffer size is accepted
ConfigOk(bs) == bs >= MAX_CHAR_BYTES

\* the reader's variables as a call of reverse_open leaves them
FreshReader ==
  /\ pc' = "start"
  /\ segment' = None /\ offset' = 0 /\ file_size' = 0 /\ remaining_size' = 0
  /\ cur_buf_size' = 0 /\ buffer_bytes' = << >> /\ trials' = 0
  /\ buffer' = << >> /\ lines' = << >> /\ index' = 0
  /\ out' = << >>
  /\ chunkPos' = 0 /\ chunkEnd' = 0
  /\ covered' = [i \in 1..Len(file) |-> 0]
  /\ split' = FALSE
  /\ lastOffset' = 0 /\ iters' = 0 /\ exited' = FALSE
  /\ fpPos' = 0

\* lines 216-221: reject the buffer size, or open the file and create the generator
OpenBody(bs, ael) ==
  /\ FreshReader
  /\ buffer_size' = bs
  /\ IF ~ConfigOk(bs)
       THEN /\ result' = "ValueError"
            /\ fp' = "none" /\ ioLog' = {} /\ gen' = "none"
            /\ buf_size' = 0 /\ allow_empty_lines' = FALSE
       ELSE /\ result' = "none"
            /\ fp' = "open" /\ ioLog' = {"open"} /\ gen' = "created"
            /\ buf_size' = bs /\ allow_empty_lines' = ael
  /\ UNCHANGED << others, file >>

reverse_open ==
  /\ fp = "none"
  /\ \E bs \in BufArgs, ael \in BOOLEAN : OpenBody(bs, ael)
  /\ UNCHANGED prev

\* the same file is read again with the same allow_empty_lines and any buffer size
Reopen ==
  /\ fp = "closed"
  /\ prev' = IF gen = "done"
                THEN [ran |-> TRUE, allow |-> allow_empty_lines, out |-> out, split |-> split]
                ELSE NoRun
  /\ \E bs \in BufArgs : OpenBody(bs, allow_empty_lines)

\* a close that leaves the file as it is
Closed_leak(h) == h

\* line 201: fp.close()
Closed(h) == "closed"

\* lines 200-201: close the reader; the caller has control
close ==
  /\ fp = "open" /\ gen # "running"
  /\ fp' = Closed(fp) /\ ioLog' = ioLog \cup {"close"}
  /\ UNCHANGED << others, file, fpPos, args, gen, pc, locals, out, result, hist, prev >>

\* lines 194-195: the with-scope of the reader is left, normally or by an
\* exception of its body; __enter__ (lines 191-192) changes nothing
__exit__ ==
  /\ fp \in {"open", "closed"} /\ gen # "running" /\ ~exited
  /\ fp' = Closed(fp) /\ ioLog' = ioLog \cup {"close"}
  /\ exited' = TRUE
  /\ UNCHANGED << others, file, fpPos, args, gen, pc, locals, out, result,
                  chunkPos, chunkEnd, covered, split, lastOffset, iters, prev >>

\* lines 189, 198: next(self.gen) on a generator that can run
Pull ==
  /\ gen \in {"created", "suspended"}
  /\ gen' = "running" /\ result' = "none"
  /\ UNCHANGED << others, file, fp, fpPos, ioLog, args, pc, locals, out, hist, prev >>

\* next(self.gen) on a generator that has returned or raised
PullFinished ==
  /\ gen \in {"done", "raised"} /\ result # "StopIteration"
  /\ result' = "StopIteration"
  /\ UNCHANGED << others, file, fp, fpPos, ioLog, args, gen, pc, locals, out, hist, prev >>

\* ---------------------------------------------------------- the generator
\* a seek, tell or read on a closed file raises ValueError
ClosedIO ==
  /\ gen = "running" /\ fp = "closed"
  /\ pc = "start" \/ (pc = "loop" /\ remaining_size > 0)
  /\ gen' = "raised" /\ result' = "ValueError"
  /\ UNCHANGED << others, file, fp, fpPos, ioLog, args, pc, locals, out, hist, prev >>

\* the pending segment initialised to the empty string
InitialSegment_empty == Some(<< >>)

\* line 135
InitialSegment == None

\* lines 135-139
GenStart ==
  /\ gen = "running" /\ pc = "start" /\ fp = "open"
  /\ segment' = InitialSegment /\ offset' = 0
  /\ fpPos' = Len(file) /\ ioLog' = ioLog \cup {"seek"}
  /\ file_size' = Len(file) /\ remaining_size' = Len(file)
  /\ pc' = "loop"
  /\ UNCHANGED << others, file, fp, args, gen, cur_buf_size, buffer_bytes, trials, buffer,
                  lines, index, out, result, hist, prev >>

\* line 142 without the offset reached so far
NextOffset_norun(fsize, off, cbs) == Min(fsize, cbs)

\* line 142
NextOffset(fsize, off, cbs) == Min(fsize, off + cbs)
\* line 144
ReadLen(rem, cbs) == Min(rem, cbs)

\* lines 140-146: one more chunk is read
LoopRead ==
  /\ gen = "running" /\ pc = "loop" /\ fp = "open"
  /\ remaining_size > 0
  /\ cur_buf_size' = buf_size
  /\ offset' = NextOffset(file_size, offset, buf_size)
  /\ LET pos == file_size - offset'
         bytes == Read(file, pos, ReadLen(remaining_size, buf_size)) IN
       /\ buffer_bytes' = bytes
       /\ fpPos' = pos + Len(bytes)
       /\ chunkPos' = pos /\ chunkEnd' = pos + Len(bytes)
  /\ ioLog' = ioLog \cup {"seek", "read"}
  /\ trials' = 0
  /\ pc' = "decode"
  /\ lastOffset' = offset /\ iters' = iters + 1
  /\ UNCHANGED << others, file, fp, args, gen, segment, file_size, remaining_size, buffer,
                  lines, index, out, result, covered, split, exited, prev >>

\* the comparison of line 153 made strict: one attempt too many
BudgetSpent_late(t) == t > MAX_CHAR_BYTES

\* line 153: the retry budget is used up
BudgetSpent(t) == t >= MAX_CHAR_BYTES

\* lines 147-157: one decode attempt
DecodeTry ==
  /\ gen = "running" /\ pc = "decode"
  /\ trials' = trials + 1
  /\ LET d == Decode(buffer_bytes) IN
       IF d.ok
         THEN /\ buffer' = d.text
              /\ pc' = "process"
              /\ covered' = [i \in 1..Len(file) |->
                               IF i > chunkPos /\ i <= chunkEnd
                                 THEN covered[i] + 1 ELSE covered[i]]
              /\ UNCHANGED << gen, result, buffer_bytes, cur_buf_size, offset,
                              chunkPos, split >>
         ELSE IF BudgetSpent(trials')
           THEN /\ gen' = "raised" /\ result' = "UnicodeDecodeError"
                /\ split' = TRUE
                /\ UNCHANGED << pc, buffer, buffer_bytes, cur_buf_size, offset,
                                chunkPos, covered >>
           ELSE /\ buffer_bytes' = Tail(buffer_bytes)
                /\ cur_buf_size' = cur_buf_size - 1
                /\ offset' = offset - 1
                /\ chunkPos' = chunkPos + 1
                /\ split' = TRUE
                /\ UNCHANGED << gen, result, pc, buffer, covered >>
  /\ UNCHANGED << others, file, fp, fpPos, ioLog, args, segment, file_size, remaining_size,
                  lines, index, out, chunkEnd, lastOffset, iters, exited, prev >>

\* line 169 looking at the first character of the chunk
EndsInsideLine_first(buf) == buf[1] # NL

\* line 169: the chunk does not end with a line break
EndsInsideLine(buf) == buf[Len(buf)] # NL

\* line 170
JoinLast(ls, seg) == [ls EXCEPT ![Len(ls)] = ls[Len(ls)] \o seg]

\* line 160 taking one byte less than the chunk consumed
Consumed_short(rem, cbs) == rem - cbs + 1

\* line 160
Consumed(rem, cbs) == rem - cbs

\* lines 158-172: account for the chunk, split it, settle the pending segment
Process ==
  /\ gen = "running" /\ pc = "process"
  /\ fpPos' = file_size - offset /\ ioLog' = ioLog \cup {"seek"}
  /\ remaining_size' = Consumed(remaining_size, cur_buf_size)
  /\ IF segment = None
       THEN /\ lines' = Split(buffer) /\ pc' = "setseg"
            /\ UNCHANGED << gen, result, out >>
       ELSE IF buffer = << >>
         THEN /\ lines' = Split(buffer)
              /\ gen' = "raised" /\ result' = "IndexError"
              /\ UNCHANGED << pc, out >>
         ELSE IF EndsInsideLine(buffer)
           THEN /\ lines' = JoinLast(Split(buffer), segment[1]) /\ pc' = "setseg"
                /\ UNCHANGED << gen, result, out >>
           ELSE /\ lines' = Split(buffer) /\ pc' = "setseg"
                /\ out' = Append(out, segment[1])
                /\ gen' = "suspended" /\ result' = "line"
  /\ UNCHANGED << others, file, fp, args, segment, offset, file_size, cur_buf_size,
                  buffer_bytes, trials, buffer, index, hist, prev >>

\* lines 173-174: the chunk's first fragment becomes the pending segment
SetSegment ==
  /\ gen = "running" /\ pc = "setseg"
  /\ segment' = Some(lines[1])
  /\ index' = Len(lines) - 1
  /\ pc' = IF Len(lines) - 1 > 0 THEN "for" ELSE "loop"
  /\ UNCHANGED << others, file, fp, fpPos, ioLog, args, gen, offset, file_size, remaining_size,
                  cur_buf_size, buffer_bytes, trials, buffer, lines, out, result,
                  hist, prev >>

\* line 175: the fragment is emitted
Emits(ael, line) == ael \/ Len(line) > 0

\* lines 174-176: one fragment of the chunk, from the last down to the second;
\* index counts from 0 as in the source, lines from 1
ForStep ==
  /\ gen = "running" /\ pc = "for"
  /\ IF Emits(allow_empty_lines, lines[index + 1])
       THEN /\ out' = Append(out, lines[index + 1])
            /\ gen' = "suspended" /\ result' = "line"
       ELSE UNCHANGED << out, gen, result >>
  /\ index' = index - 1
  /\ pc' = IF index - 1 > 0 THEN "for" ELSE "loop"
  /\ UNCHANGED << others, file, fp, fpPos, ioLog, args, segment, offset, file_size,
                  remaining_size, cur_buf_size, buffer_bytes, trials, buffer, lines,
                  hist, prev >>

\* the final flush guarded like the fragments of line 175
FlushesFinal_nonempty(seg) == seg # None /\ Len(seg[1]) > 0

\* line 178: the pending segment is flushed at the end
FlushesFinal(seg) == seg # None

\* lines 140, 177-179: the loop ends; the pending segment is the last line
Final ==
  /\ gen = "running" /\ pc = "loop"
  /\ remaining_size <= 0
  /\ IF FlushesFinal(segment)
       THEN /\ out' = Append(out, segment[1])
            /\ gen' = "suspended" /\ result' = "line"
            /\ pc' = "end"
       ELSE /\ gen' = "done" /\ result' = "StopIteration"
            /\ pc' = "end"
            /\ UNCHANGED out
  /\ UNCHANGED << others, file, fp, fpPos, ioLog, args, locals, hist, prev >>

\* the generator returns after line 179
Return ==
  /\ gen = "running" /\ pc = "end"
  /\ gen' = "done" /\ result' = "StopIteration"
  /\ UNCHANGED << others, file, fp, fpPos, ioLog, args, pc, locals, out, hist, prev >>

Next ==
  \/ reverse_open \/ close \/ __exit__ \/ Pull \/ PullFinished \/ ClosedIO
  \/ GenStart \/ LoopRead \/ DecodeTry \/ Process \/ SetSegment \/ ForStep
  \/ Final \/ Return

NextAgain == Next \/ Reopen

\* one reader over a validly encoded file
Spec == Init /\ [][Next]_vars
\* a validly encoded file read by one reader after another
SpecAgain == Init /\ [][NextAgain]_vars
\* one reader over a file of arbitrary bytes
SpecBytes == InitBytes /\ [][Next]_vars
\* ------------------------------------------------------------- properties
RECURSIVE Reverse(_)
Reverse(s) == IF s = << >> THEN << >> ELSE Append(Reverse(Tail(s)), Head(s))

IsNonEmpty(l) == l # << >>
Count(s, l) == Cardinality({ i \in 1..Len(s) : s[i] = l })

FileText == Decode(file).text
FileLines == Split(FileText)
\* the blank lines of the file: empty strings between two consecutive line breaks
BlankLines == Cardinality({ i \in 1..(Len(FileText) - 1) :
                              FileText[i] = NL /\ FileText[i + 1] = NL })
Exhausted == gen = "done"

\* C1: a reader with allow_empty_lines=false that is exhausted has yielded
\* exactly the non-empty lines of the file, in reverse order.
C1_RoundTrip ==
  (Exhausted /\ ~allow_empty_lines) =>
    out = Reverse(SelectSeq(FileLines, IsNonEmpty))

\* C2: two exhausted readers of the same file with the same allow_empty_lines
\* and any two legal buffer sizes have yielded the same sequence of lines.
C2_ChunkSizeInvariance ==
  (Exhausted /\ prev.ran /\ prev.allow = allow_empty_lines) => out = prev.out

\* C3: on a validly encoded file no decode error is raised, every byte is
\* decoded in exactly one chunk, and a reader some chunk of which started
\* inside a character yields the same lines as a reader no chunk of which did.
C3_MultiByteBoundary ==
  /\ result # "UnicodeDecodeError"
  /\ Exhausted => \A i \in 1..Len(file) : covered[i] = 1
  /\ (Exhausted /\ split /\ prev.ran /\ ~prev.split /\ prev.allow = allow_empty_lines)
       => out = prev.out

\* C4: with allow_empty_lines=false no yielded line is the empty string.
C4_NoEmptyLine ==
  ~allow_empty_lines => \A i \in 1..Len(out) : out[i] # << >>

\* C5: with allow_empty_lines=true an exhausted reader has yielded exactly one
\* empty line per blank line of the file.
C5_EmptyLinesPreserved ==
  (Exhausted /\ allow_empty_lines) => Count(out, << >>) = BlankLines

C7_EmptyFile ==
  (file = << >> /\ fp = "open") =>
    /\ out = << >>
    /\ gen \in {"created", "running", "done"}
    /\ result \in {"none", "StopIteration"}
    /\ Exhausted => result = "StopIteration"

C7_Witness == file = << >> /\ Exhausted /\ allow_empty_lines /\ fp = "open"

\* C8: a reader that ends without an error has decoded every byte of the
\* file in exactly one successfully decoded chunk.
C8_NoSilentTruncation ==
  Exhausted => \A i \in 1..Len(file) : covered[i] = 1

\* the number of leading bytes dropped from the current chunk
Drops == IF pc = "decode" /\ gen = "running" THEN trials ELSE trials - 1

\* C9: a chunk gets at most MAX_CHAR_BYTES decode attempts; each failed
\* attempt but the last drops the leading byte and takes one off cur_buf_size
\* and offset; UnicodeDecodeError is raised only by the failure of the last
\* attempt, and after it no line is added to, or taken from, those yielded.
C9_RetryBound ==
  /\ [](/\ trials <= MAX_CHAR_BYTES
        /\ pc \in {"decode", "process"} =>
             /\ cur_buf_size = buf_size - Drops
             /\ file_size - offset = chunkPos
             /\ buffer_bytes = SubSeq(file, chunkPos + 1, chunkEnd)
        /\ pc = "decode" =>
             Len(buffer_bytes) = Min(remaining_size, buf_size) - Drops
        /\ result = "UnicodeDecodeError" =>
             /\ gen = "raised" /\ trials = MAX_CHAR_BYTES
             /\ ~Decode(buffer_bytes).ok)
  /\ [][gen = "raised" => (gen' = "raised" /\ out' = out)]_vars

C9_Witness ==
  /\ gen = "raised" /\ result = "UnicodeDecodeError" /\ out # << >>

\* C10: reverse_open raises ValueError exactly when buffer_size is below
\* MAX_CHAR_BYTES, and then no file has been opened, sought or read.
C10_ConfigRejection ==
  buffer_size # -1 =>
    /\ buffer_size < MAX_CHAR_BYTES <=> (gen = "none" /\ result = "ValueError")
    /\ buffer_size < MAX_CHAR_BYTES => (fp = "none" /\ ioLog = {})
    /\ buffer_size >= MAX_CHAR_BYTES => "open" \in ioLog

C10_Witness == buffer_size = MAX_CHAR_BYTES - 1 /\ result = "ValueError" /\ fp = "none"
\* C12: once the with-scope of the reader has been left, after exhaustion,
\* after an early stop or after an error of the iteration, the file is closed.
C12_Release == exited => fp = "closed"

C12_Witness ==
  /\ exited /\ gen = "raised" /\ result = "UnicodeDecodeError" /\ out # << >>

\* C17: offset stays within 0..file_size, and when a loop iteration has
\* decoded its chunk offset is greater than it was when the iteration began.
C17_Cursor ==
  /\ 0 <= offset /\ offset <= file_size
  /\ (iters >= 1 /\ pc \in {"process", "setseg", "for", "loop", "end"}) =>
       offset > lastOffset

C17_Witness == iters >= 2 /\ split /\ Exhausted /\ offset = file_size

C19_Termination ==
  /\ [](iters <= Len(file))
  /\ [][(pc = "process" /\ gen = "running" /\ pc' = "setseg") =>
          remaining_size' < remaining_size]_vars

C19_Witness == iters >= 2 /\ split /\ Exhausted /\ ~Decode(file).ok

\* C20: when a chunk has been decoded and a pending segment exists the chunk
\* holds at least one character, and no IndexError is raised.
C20_NonEmptyChunk ==
  /\ (pc = "process" /\ gen = "running" /\ segment # None) => buffer # << >>
  /\ result # "IndexError"

\* ---------------------------------------------------------------- shut_up
Fds == 0..MaxFd
Free(t) == {fd \in Fds : t[fd] = "free"}
\* the kernel hands out the lowest free descriptor
LowestFree(t) == CHOOSE fd \in Free(t) : \A g \in Free(t) : fd <= g

\* [os.open(os.devnull, os.O_RDWR) for _ in fds]
RECURSIVE OpenNulls(_, _)
OpenNulls(t, n) ==
  IF n = 0 THEN [t |-> t, got |-> << >>]
  ELSE LET fd == LowestFree(t)
           r == OpenNulls([t EXCEPT ![fd] = "null"], n - 1)
       IN [t |-> r.t, got |-> << fd >> \o r.got]

\* [os.dup(fd) for fd in fds]
RECURSIVE DupAll(_, _)
DupAll(t, fs) ==
  IF fs = << >> THEN [t |-> t, got |-> << >>]
  ELSE LET fd == LowestFree(t)
           r == DupAll([t EXCEPT ![fd] = t[Head(fs)]], Tail(fs))
       IN [t |-> r.t, got |-> << fd >> \o r.got]

\* for null_fd, fd in zip(null_fds, fds): os.dup2(null_fd, fd)
RECURSIVE Redirect(_, _, _)
Redirect(t, nulls, fs) ==
  IF fs = << >> \/ nulls = << >> THEN t
  ELSE Redirect([t EXCEPT ![Head(fs)] = t[Head(nulls)]], Tail(nulls), Tail(fs))

\* for null_fd, output_fd, fd in zip(...): os.dup2(output_fd, fd); os.close(null_fd)
RECURSIVE Restore(_, _, _, _)
Restore(t, nulls, outs, fs) ==
  IF fs = << >> \/ nulls = << >> \/ outs = << >> THEN t
  ELSE Restore([t EXCEPT ![Head(fs)] = t[Head(outs)], ![Head(nulls)] = "free"],
               Tail(nulls), Tail(outs), Tail(fs))

\* fds = ([1] if stdout else []) + ([2] if stderr else [])
FdsOf(err, outp) == (IF outp THEN << 1 >> ELSE << >>) \o (IF err THEN << 2 >> ELSE << >>)

readerVars == << file, fp, fpPos, ioLog, args, gen, pc, locals, out, result, hist, prev >>

\* entering the scope runs the generator up to its yield
shut_up ==
  /\ su \in {"idle", "done", "raised"}
  /\ \E err \in BOOLEAN, outp \in BOOLEAN :
       LET fs == FdsOf(err, outp)
           o == OpenNulls(fdt, Len(fs))
           d == DupAll(o.t, fs)
       IN /\ Cardinality(Free(fdt)) >= 2 * Len(fs)
          /\ stderr' = err /\ stdout' = outp
          /\ fds' = fs /\ null_fds' = o.got /\ output_fds' = d.got
          /\ fdt' = Redirect(d.t, o.got, fs)
  /\ fdt0' = fdt
  /\ su' = "body"
  /\ UNCHANGED << readerVars, progVars >>

\* the body ends and the generator is resumed after its yield
BodyReturns ==
  /\ su = "body"
  /\ fdt' = Restore(fdt, null_fds, output_fds, fds)
  /\ su' = "done"
  /\ UNCHANGED << fdt0, stderr, stdout, fds, null_fds, output_fds, readerVars, progVars >>

\* the body raises: the exception is thrown into the generator at its yield,
\* which has no handler, so the generator ends there
BodyRaises ==
  /\ su = "body"
  /\ su' = "raised"
  /\ UNCHANGED << fdt, fdt0, stderr, stdout, fds, null_fds, output_fds, readerVars,
                  progVars >>

\* descriptors above 2 that the process already holds
InitShutUp ==
  /\ file = << >> /\ ReaderIdle /\ ProgIdle
  /\ \E held \in SUBSET {3, 4, 5} :
       fdt = [fd \in Fds |-> IF fd \in held THEN "other" ELSE StdTable[fd]]
  /\ ShutIdle

NextShutUp == shut_up \/ BodyReturns \/ BodyRaises

\* scopes of shut_up, one after another
SpecShutUp == InitShutUp /\ [][NextShutUp]_vars

\* C13: when the scope of shut_up ends, normally or because the body raised,
\* descriptors 1 and 2 refer to the streams they referred to when the scope
\* was entered, and a descriptor whose flag is false is not redirected
C13_Restore ==
  /\ su \in {"done", "raised"} => (fdt[1] = fdt0[1] /\ fdt[2] = fdt0[2])
  /\ su # "idle" => /\ ~stdout => fdt[1] = fdt0[1]
                    /\ ~stderr => fdt[2] = fdt0[2]


\* ------------------------------------- progress_open, _ProgressBufferedReader
Modes == {"r", "rb", "w", "wb", "a", "r+"}
ReadModes == {"r", "rb"}
Wrapped == {"reader", "text"}
Sizes == {-1} \cup 0..MaxProgLen
Offsets == -2..MaxPos
ProgFiles == UNION {[1..n -> {NL, 97}] : n \in 0..MaxProgLen}

\* if mode not in ["r", "rb"]
ModeOk_any(m) == TRUE
ModeOk(m) == m \in {"r", "rb"}

\* open(path, mode) truncates the file in the modes "w" and "wb"
Opened(m, f) == IF m \in {"w", "wb"} THEN << >> ELSE f

progress_open ==
  /\ handle = "none"
  /\ \E m \in Modes, v \in BOOLEAN :
       /\ mode' = m /\ verbose' = v
       /\ IF ~v
            THEN /\ handle' = "plain" /\ file' = Opened(m, file)
                 /\ call' = [op |-> "progress_open", ret |-> 0, exc |-> "none"]
                 /\ UNCHANGED << raw, progress_bar >>
            ELSE IF ~ModeOk(m)
            THEN /\ call' = [op |-> "progress_open", ret |-> 0, exc |-> "ValueError"]
                 /\ UNCHANGED << handle, file, raw, progress_bar >>
            ELSE /\ raw' = "open"
                 /\ progress_bar' = [state |-> "open", n |-> 0, total |-> Len(file),
                                     log |-> << >>]
                 /\ handle' = IF m = "r" THEN "text" ELSE "reader"
                 /\ call' = [op |-> "progress_open", ret |-> 0, exc |-> "none"]
                 /\ UNCHANGED file
  /\ UNCHANGED << tell, returned, sought, life, shutVars, fp, fpPos, ioLog, args, gen,
                  pc, locals, out, result, hist, prev >>

\* the bytes between the position and the end of the file
Avail == IF tell >= Len(file) THEN 0 ELSE Len(file) - tell
\* the bytes up to and including the next newline
ToNewline ==
  LET ends == {i \in (tell + 1)..Len(file) : file[i] = NL}
  IN IF ends = {} THEN Avail
     ELSE (CHOOSE i \in ends : \A j \in ends : i <= j) - tell

\* self.progress_bar.update(len(ret))
Report_set(bar, k) == [bar EXCEPT !.n = k, !.log = << "update" >>]
Report(bar, k) == [bar EXCEPT !.n = bar.n + k, !.log = << "update" >>]

\* self.progress_bar.n = ret; self.progress_bar.refresh()
SeekReport_add(bar, ret) == [bar EXCEPT !.n = bar.n + ret, !.log = << "n", "refresh" >>]
SeekReport(bar, ret) == [bar EXCEPT !.n = ret, !.log = << "n", "refresh" >>]

InUse == handle \in Wrapped /\ raw = "open" /\ progress_bar.state = "open"

\* a read call that returned k bytes
Returns(op, k) ==
  /\ tell' = tell + k
  /\ progress_bar' = Report(progress_bar, k)
  /\ call' = [op |-> op, ret |-> k, exc |-> "none"]
  /\ returned' = IF sought THEN returned ELSE returned + k
  /\ UNCHANGED << mode, verbose, handle, raw, sought, life, shutVars, readerVars >>

read ==
  /\ InUse
  /\ \E size \in Sizes : Returns("read", IF size < 0 THEN Avail ELSE Min(size, Avail))

\* at most one read of the raw file: any number of bytes up to the size asked
read1 ==
  /\ InUse
  /\ \E size \in Sizes :
       LET most == IF size < 0 THEN Avail ELSE Min(size, Avail)
       IN \E k \in (IF most = 0 THEN {0} ELSE 1..most) : Returns("read1", k)

readinto ==
  /\ InUse
  /\ \E len \in 0..MaxProgLen : Returns("readinto", Min(len, Avail))

readline ==
  /\ InUse
  /\ \E size \in Sizes :
       Returns("readline", IF size < 0 THEN ToNewline ELSE Min(size, ToNewline))

seek ==
  /\ InUse
  /\ \E off \in Offsets, whence \in {0, 1, 2} :
       LET ret == IF whence = 0 THEN off
                  ELSE IF whence = 1 THEN tell + off ELSE Len(file) + off
       IN /\ ret <= MaxPos
          /\ IF ret < 0
               THEN /\ call' = [op |-> "seek", ret |-> 0, exc |-> "OSError"]
                    /\ UNCHANGED << tell, progress_bar, sought >>
               ELSE /\ tell' = ret
                    /\ progress_bar' = SeekReport(progress_bar, ret)
                    /\ call' = [op |-> "seek", ret |-> ret, exc |-> "none"]
                    /\ sought' = TRUE
  /\ UNCHANGED << mode, verbose, handle, raw, returned, life, shutVars, readerVars >>

\* self.progress_bar.close(), and nothing else
BarClosed(bar) == [bar EXCEPT !.state = "closed", !.log = << "close" >>]

_ProgressBufferedReader__enter__ ==
  /\ InUse /\ life = "new"
  /\ life' = "with"
  /\ call' = [op |-> "__enter__", ret |-> 0, exc |-> "none"]
  /\ UNCHANGED << mode, verbose, handle, raw, progress_bar, tell, returned, sought,
                  shutVars, readerVars >>

_ProgressBufferedReader_close ==
  /\ handle \in Wrapped /\ life \in {"new", "with"}
  /\ progress_bar' = BarClosed(progress_bar)
  /\ life' = "close"
  /\ call' = [op |-> "close", ret |-> 0, exc |-> "none"]
  /\ UNCHANGED << mode, verbose, handle, raw, tell, returned, sought, shutVars,
                  readerVars >>

\* leaving the with block, normally or by an exception: io.IOBase.__exit__
\* calls self.close() and returns None, then progress_bar.__exit__ closes the bar
_ProgressBufferedReader__exit__ ==
  /\ handle \in Wrapped /\ life \in {"with", "close"}
  /\ progress_bar' = [BarClosed(BarClosed(progress_bar)) EXCEPT !.log = << "close", "close" >>]
  /\ life' = "exit"
  /\ call' = [op |-> "__exit__", ret |-> 0, exc |-> "none"]
  /\ UNCHANGED << mode, verbose, handle, raw, tell, returned, sought, shutVars,
                  readerVars >>

InitProgress ==
  /\ file \in ProgFiles /\ ReaderIdle /\ ProgIdle /\ fdt = StdTable /\ ShutIdle

NextProgress ==
  \/ progress_open \/ read \/ read1 \/ readinto \/ readline \/ seek
  \/ _ProgressBufferedReader__enter__ \/ _ProgressBufferedReader_close
  \/ _ProgressBufferedReader__exit__

\* one call of progress_open after another until one returns a handle, and
\* the operations on the reader it returned
SpecProgress == InitProgress /\ [][NextProgress]_vars


\* C11: once the progress wrapper has been closed, by close() or by leaving
\* its with block, the progress bar is closed and the raw file under the
\* wrapper is closed as well
C11_WrapperClose ==
  life \in {"close", "exit"} => (progress_bar.state = "closed" /\ raw = "closed")

\* C14: as long as seek has not been called, the n of the progress bar is the
\* number of bytes that read, read1, readinto and readline have returned, and
\* it is at most the total, the size of the file
C14_Accumulation ==
  (handle \in Wrapped /\ ~sought) =>
    /\ progress_bar.n = returned
    /\ progress_bar.n <= progress_bar.total
    /\ progress_bar.total = Len(file)

C14_Witness ==
  /\ handle \in Wrapped /\ ~sought /\ call.op = "readinto" /\ call.ret >= 1
  /\ returned >= 3 /\ returned = progress_bar.total

\* C15: a seek sets the n of the progress bar to the position it returned and
\* then refreshes the bar, and after any seeks and reads the n of the bar is
\* the stream position of the wrapper
C15_Seek ==
  handle \in Wrapped =>
    /\ progress_bar.n = tell
    /\ (call.op = "seek" /\ call.exc = "none") =>
         /\ progress_bar.n = call.ret
         /\ progress_bar.log = << "n", "refresh" >>

C15_Witness ==
  /\ handle \in Wrapped /\ sought /\ returned >= 2
  /\ call.op = "readline" /\ call.ret >= 1 /\ progress_bar.n < returned

\* C16 as stated: whatever verbose is, a call of progress_open with a mode
\* other than "r" and "rb" raises ValueError with no file opened, and no
\* handle opened for writing is returned
C16_ModeRejection ==
  /\ (mode \notin {"none", "r", "rb"}) =>
       (call.exc = "ValueError" /\ handle = "none" /\ raw = "none")
  /\ ~(handle = "plain" /\ mode \notin {"r", "rb"})

\* C16 amended: with verbose true a mode other than "r" and "rb" raises
\* ValueError with no file opened and a wrapped handle reads only; with
\* verbose false every mode is handed to open and a plain handle is returned
C16_Amended ==
  /\ (mode \notin {"none", "r", "rb"} /\ verbose) =>
       /\ call = [op |-> "progress_open", ret |-> 0, exc |-> "ValueError"]
       /\ handle = "none" /\ raw = "none" /\ progress_bar = NoBar
  /\ handle \in Wrapped => (verbose /\ mode \in {"r", "rb"})
  /\ (mode # "none" /\ ~verbose) => (handle = "plain" /\ call.exc = "none")

C16_Witness ==
  mode = "wb" /\ verbose /\ call.exc = "ValueError" /\ handle = "none" /\ Len(file) >= 1

====
